---- MODULE Spec2Model ----
(***************************************************************************)
(* The regenerative-braking current regulator simulated by                 *)
(* PowerControllerTester (test_power_controller.py) and                    *)
(* RealisticPowerControllerTester (test_power_controller_improved.py).     *)
(*                                                                         *)
(* Python floats are modelled as exact decimal fixed-point integers:       *)
(*   voltages and errors     in 1e-2 V      (47.49 V  = 4749)              *)
(*   the tick interval dt    in 1e-3 s      (0.01 s   = 10)                *)
(*   the integral            in 1e-5 V*s    (10.0     = 1000000)           *)
(*   currents                in 1e-5 A      (50.0 A   = 5000000)           *)
(*   kp, ki                  as integers, kd in tenths (0.4 = 4)           *)
(* Every product and quotient the code forms is exact in these units for   *)
(* the samples used here.  NaN is a separate value: every arithmetic       *)
(* operator propagates it and every comparison with it is false.           *)
(***************************************************************************)
EXTENDS Integers, Sequences, FiniteSets, TLC

VARIABLES
    ctl,        \* instance id -> the tester object's attributes
    last,       \* instance id -> what the most recent call on it did
    hist,       \* instance id -> the ticks it has served, oldest first
    pc,         \* position of the scenario test being run
    loop_i,     \* the scenario test's loop index i
    test_data,  \* self.test_data of the instance running the scenario
    suite       \* the locals of run_all_tests and what it has called so far

vars == <<ctl, last, hist, pc, loop_i, test_data, suite>>

-----------------------------------------------------------------------------
(* Float arithmetic *)

\* float('nan'): a value outside the range of every finite quantity
NaN == 0 - 2000000000

IsNaN(a) == a = NaN

Finite(a) == a # NaN

fAdd(a, b) == IF IsNaN(a) \/ IsNaN(b) THEN NaN ELSE a + b

fSub(a, b) == IF IsNaN(a) \/ IsNaN(b) THEN NaN ELSE a - b

fMul(a, b) == IF IsNaN(a) \/ IsNaN(b) THEN NaN ELSE a * b

\* a / b for b # 0; the quotients formed by the code are exact
fDiv(a, b) == IF IsNaN(a) \/ IsNaN(b) THEN NaN ELSE a \div b

fNeg(a) == IF IsNaN(a) THEN NaN ELSE 0 - a

fLt(a, b) == Finite(a) /\ Finite(b) /\ a < b

fGt(a, b) == Finite(a) /\ Finite(b) /\ a > b

fLe(a, b) == Finite(a) /\ Finite(b) /\ a <= b

fGe(a, b) == Finite(a) /\ Finite(b) /\ a >= b

\* Python's max(a, b): a unless b > a
pyMax(a, b) == IF fGt(b, a) THEN b ELSE a

\* Python's min(a, b): a unless b < a
pyMin(a, b) == IF fLt(b, a) THEN b ELSE a

\* whole.hundredths volts in 1e-2 V
Volts(whole, hundredths) == 100 * whole + hundredths

\* whole amperes in 1e-5 A
Amps(whole) == 100000 * whole

\* whole volt-seconds in 1e-5 V*s
VoltSeconds(whole) == 100000 * whole

\* error [1e-2 V] * dt [1e-3 s] in 1e-5 V*s
ErrorTimesDt(error, dt) == fMul(error, dt)

\* kp * error [1e-2 V] in 1e-5 A
KpTimesError(kp, error) == fMul(fMul(kp, error), 1000)

\* ki * integral [1e-5 V*s] in 1e-5 A
KiTimesIntegral(ki, integral) == fMul(ki, integral)

\* the derivative term with the division by dt left out
KdTimesSlope_NoDt(kd, delta, dt) == fMul(fMul(kd, delta), 100)

\* kd [tenths] * delta [1e-2 V] / dt [1e-3 s] in 1e-5 A
KdTimesSlope(kd, delta, dt) == fDiv(fMul(fMul(kd, delta), 100000), dt)

\* `voltage >= VOLTAGE_THRESHOLD or voltage <= MIN_VOLTAGE`, as written with
\* the upper comparison strict
InSafetyZone_StrictThreshold(voltage, threshold, minimum) ==
    fGt(voltage, threshold) \/ fLe(voltage, minimum)

\* the safety-zone test without its upper half: `voltage <= MIN_VOLTAGE`
InSafetyZone_NoUpperGate(voltage, threshold, minimum) ==
    fLe(voltage, minimum)

\* the safety-zone test: `voltage >= VOLTAGE_THRESHOLD or voltage <= MIN_VOLTAGE`
InSafetyZone(voltage, threshold, minimum) ==
    fGe(voltage, threshold) \/ fLe(voltage, minimum)

\* the anti-windup if/elif left out
AntiWindup_Missing(integral, limit) == integral

\* the anti-windup if/elif on the accumulated integral
AntiWindup(integral, limit) ==
    IF fGt(integral, limit) THEN limit
    ELSE IF fLt(integral, fNeg(limit)) THEN fNeg(limit)
    ELSE integral

\* the output limit without its lower bound: min(output, MAX_CURRENT)
Limit_NoFloor(output, max_current) == pyMin(output, max_current)

\* the output limit without its upper bound: max(output, 0.0)
Limit_NoCeiling(output, max_current) == pyMax(output, 0)

\* `min(max(output, 0.0), MAX_CURRENT)`
Limit(output, max_current) == pyMin(pyMax(output, 0), max_current)

-----------------------------------------------------------------------------
(* The two tester classes *)

Basic == "PowerControllerTester"

Realistic == "RealisticPowerControllerTester"

\* PowerControllerTester.__init__ (the second definition is the one in force)
PowerControllerTester_init ==
    [cls |-> Basic,
     integral |-> 0, previous_error |-> 0,
     kp |-> 20, ki |-> 5, kd |-> 5, dt |-> 100]

\* RealisticPowerControllerTester.__init__
RealisticPowerControllerTester_init ==
    [cls |-> Realistic,
     kp |-> 20, ki |-> 4, kd |-> 4, dt |-> 10,
     integral |-> 0, previous_error |-> 0,
     TARGET_VOLTAGE |-> Volts(48, 0),
     VOLTAGE_THRESHOLD |-> Volts(47, 50),
     MIN_VOLTAGE |-> Volts(36, 0),
     MAX_CURRENT |-> Amps(50),
     INTEGRAL_LIMIT |-> VoltSeconds(10)]

\* the constants local to PowerControllerTester.simulate_controller_response
BasicConstants ==
    [TARGET_VOLTAGE |-> Volts(48, 0),
     VOLTAGE_THRESHOLD |-> Volts(47, 50),
     MIN_VOLTAGE |-> Volts(45, 0),
     MAX_CURRENT |-> Amps(50),
     INTEGRAL_LIMIT |-> VoltSeconds(10)]

\* reset_pid() that forgets previous_error
reset_pid_IntegralOnly(c) == [c EXCEPT !.integral = 0]

\* reset_pid() of either class
reset_pid(c) == [c EXCEPT !.integral = 0, !.previous_error = 0]

\* PowerControllerTester.simulate_controller_response(voltage) on object c:
\* the attributes after the call, the value returned, and what the call did
simulate_controller_response(c, voltage) ==
    LET TARGET_VOLTAGE == BasicConstants.TARGET_VOLTAGE
        VOLTAGE_THRESHOLD == BasicConstants.VOLTAGE_THRESHOLD
        MIN_VOLTAGE == BasicConstants.MIN_VOLTAGE
        MAX_CURRENT == BasicConstants.MAX_CURRENT
        INTEGRAL_LIMIT == BasicConstants.INTEGRAL_LIMIT
    IN  IF InSafetyZone(voltage, VOLTAGE_THRESHOLD, MIN_VOLTAGE)
        THEN [self |-> [c EXCEPT !.integral = 0, !.previous_error = 0],
              ret |-> 0, active |-> FALSE, integral_term |-> 0]
        ELSE
        LET error == fSub(TARGET_VOLTAGE, voltage)
            proportional == KpTimesError(c.kp, error)
            summed == fAdd(c.integral, ErrorTimesDt(error, c.dt))
            pid_integral == AntiWindup(summed, INTEGRAL_LIMIT)
            integral == KiTimesIntegral(c.ki, pid_integral)
            derivative == KdTimesSlope(c.kd, fSub(error, c.previous_error), c.dt)
            output == fAdd(fAdd(proportional, integral), derivative)
            limited == Limit(output, MAX_CURRENT)
        IN  [self |-> [c EXCEPT !.integral = pid_integral,
                                !.previous_error = error],
             ret |-> limited, active |-> TRUE, integral_term |-> integral]

\* RealisticPowerControllerTester.simulate_pid_controller(voltage) on object c
simulate_pid_controller(c, voltage) ==
    IF InSafetyZone(voltage, c.VOLTAGE_THRESHOLD, c.MIN_VOLTAGE)
    THEN [self |-> reset_pid(c),
          ret |-> 0, active |-> FALSE, integral_term |-> 0]
    ELSE
    LET error == fSub(c.TARGET_VOLTAGE, voltage)
        proportional == KpTimesError(c.kp, error)
        summed == fAdd(c.integral, ErrorTimesDt(error, c.dt))
        integral == AntiWindup(summed, c.INTEGRAL_LIMIT)
        integral_term == KiTimesIntegral(c.ki, integral)
        derivative == KdTimesSlope(c.kd, fSub(error, c.previous_error), c.dt)
        output == fAdd(fAdd(proportional, integral_term), derivative)
        limited == Limit(output, c.MAX_CURRENT)
    IN  [self |-> [c EXCEPT !.integral = integral, !.previous_error = error],
         ret |-> limited, active |-> TRUE, integral_term |-> integral_term]

\* the tick of whichever class the object is
tick(c, voltage) ==
    IF c.cls = Realistic THEN simulate_pid_controller(c, voltage)
    ELSE simulate_controller_response(c, voltage)

\* the configuration a tick of object c works with
Params(c) ==
    IF c.cls = Realistic
    THEN [kp |-> c.kp, ki |-> c.ki, kd |-> c.kd, dt |-> c.dt,
          TARGET_VOLTAGE |-> c.TARGET_VOLTAGE,
          VOLTAGE_THRESHOLD |-> c.VOLTAGE_THRESHOLD,
          MIN_VOLTAGE |-> c.MIN_VOLTAGE,
          MAX_CURRENT |-> c.MAX_CURRENT,
          INTEGRAL_LIMIT |-> c.INTEGRAL_LIMIT]
    ELSE [kp |-> c.kp, ki |-> c.ki, kd |-> c.kd, dt |-> c.dt,
          TARGET_VOLTAGE |-> BasicConstants.TARGET_VOLTAGE,
          VOLTAGE_THRESHOLD |-> BasicConstants.VOLTAGE_THRESHOLD,
          MIN_VOLTAGE |-> BasicConstants.MIN_VOLTAGE,
          MAX_CURRENT |-> BasicConstants.MAX_CURRENT,
          INTEGRAL_LIMIT |-> BasicConstants.INTEGRAL_LIMIT]

-----------------------------------------------------------------------------
(* Voltage samples fed by the harness *)

\* the boundary_tests table of test_boundary_conditions, and the idle 48.0 V
BasicSamples ==
    {Volts(48, 0), Volts(47, 60), Volts(47, 50), Volts(47, 49), Volts(46, 50),
     Volts(45, 1), Volts(45, 0), Volts(44, 0)}

\* the same probes around the Realistic tester's zone (36.0 V, 47.5 V), and
\* the 48.0 V and 46.0 V levels of test_step_response
RealisticSamples ==
    {Volts(48, 0), Volts(47, 60), Volts(47, 50), Volts(47, 40), Volts(46, 0),
     Volts(36, 10), Volts(36, 0), Volts(35, 0)}

Samples(c) == IF c.cls = Realistic THEN RealisticSamples ELSE BasicSamples

-----------------------------------------------------------------------------
(* State *)

\* nothing has been called on the object since __init__
NoCall ==
    [op |-> "init", voltage |-> 0, ret |-> 0, active |-> FALSE,
     integral_term |-> 0, dirty |-> FALSE]

\* run_all_tests has not been entered
NoSuite ==
    [passed |-> 0, total |-> 0, started |-> <<>>, outcomes |-> <<>>,
     result |-> "none", report_calls |-> 0, ret |-> "none"]

Dirty(c) == c.integral # 0 \/ c.previous_error # 0

Fresh == {PowerControllerTester_init, RealisticPowerControllerTester_init}

\* one tester object, just constructed
Init ==
    /\ ctl \in [{1} -> Fresh]
    /\ last = [i \in {1} |-> NoCall]
    /\ hist = [i \in {1} |-> <<>>]
    /\ pc = "idle"
    /\ loop_i = 0
    /\ test_data = <<>>
    /\ suite = NoSuite

\* a tick whose compensator state is kept per class, not per object: every
\* instance of the class sees the new integral and previous_error
Ticked_ClassLevelState(i, voltage) ==
    LET r == tick(ctl[i], voltage)
    IN  /\ ctl' = [j \in DOMAIN ctl |->
                      IF j = i THEN r.self
                      ELSE IF ctl[j].cls = ctl[i].cls
                      THEN [ctl[j] EXCEPT !.integral = r.self.integral,
                                          !.previous_error = r.self.previous_error]
                      ELSE ctl[j]]
        /\ last' = [last EXCEPT ![i] =
                       [op |-> "tick", voltage |-> voltage, ret |-> r.ret,
                        active |-> r.active, integral_term |-> r.integral_term,
                        dirty |-> Dirty(ctl[i])]]

\* a tick whose safety-zone branch resets every instance
Ticked_ResetsAll(i, voltage) ==
    LET r == tick(ctl[i], voltage)
    IN  /\ ctl' = [j \in DOMAIN ctl |->
                      IF j = i THEN r.self
                      ELSE IF r.active THEN ctl[j] ELSE reset_pid(ctl[j])]
        /\ last' = [last EXCEPT ![i] =
                       [op |-> "tick", voltage |-> voltage, ret |-> r.ret,
                        active |-> r.active, integral_term |-> r.integral_term,
                        dirty |-> Dirty(ctl[i])]]

\* a tick that re-derives self.dt from the caller's sampling step (the 0.001 s
\* time_step of test_performance) instead of leaving the attribute alone
Ticked_RetimesDt(i, voltage) ==
    LET r == tick(ctl[i], voltage)
    IN  /\ ctl' = [ctl EXCEPT ![i] = [r.self EXCEPT !.dt = 1]]
        /\ last' = [last EXCEPT ![i] =
                       [op |-> "tick", voltage |-> voltage, ret |-> r.ret,
                        active |-> r.active, integral_term |-> r.integral_term,
                        dirty |-> Dirty(ctl[i])]]

\* a tick with a one-sample debounce: the first inactive sample after an
\* Active one returns 0 but keeps integral and previous_error
Ticked_Debounced(i, voltage) ==
    LET r == tick(ctl[i], voltage)
        keep == ~r.active /\ last[i].op = "tick" /\ last[i].active
    IN  /\ ctl' = [ctl EXCEPT ![i] = IF keep THEN ctl[i] ELSE r.self]
        /\ last' = [last EXCEPT ![i] =
                       [op |-> "tick", voltage |-> voltage, ret |-> r.ret,
                        active |-> r.active, integral_term |-> r.integral_term,
                        dirty |-> Dirty(ctl[i])]]

\* a tick with a conditional integrator: when the output comes out clamped to
\* 0 or MAX_CURRENT the integral keeps its value from before the tick
Ticked_FreezeOnSaturation(i, voltage) ==
    LET r == tick(ctl[i], voltage)
        saturated == r.active /\ r.ret \in {0, Params(ctl[i]).MAX_CURRENT}
    IN  /\ ctl' = [ctl EXCEPT ![i] =
                      IF saturated
                      THEN [r.self EXCEPT !.integral = ctl[i].integral]
                      ELSE r.self]
        /\ last' = [last EXCEPT ![i] =
                       [op |-> "tick", voltage |-> voltage, ret |-> r.ret,
                        active |-> r.active, integral_term |-> r.integral_term,
                        dirty |-> Dirty(ctl[i])]]

\* the effect of one tick of instance i on ctl and last
Ticked(i, voltage) ==
    LET r == tick(ctl[i], voltage)
    IN  /\ ctl' = [ctl EXCEPT ![i] = r.self]
        /\ last' = [last EXCEPT ![i] =
                       [op |-> "tick", voltage |-> voltage, ret |-> r.ret,
                        active |-> r.active, integral_term |-> r.integral_term,
                        dirty |-> Dirty(ctl[i])]]

\* the harness calls the tick of instance i with a sample
Tick(i, voltage) ==
    /\ pc = "idle"
    /\ Ticked(i, voltage)
    /\ UNCHANGED <<hist, pc, loop_i, test_data, suite>>

\* the harness calls reset_pid() on instance i
ResetPid(i) ==
    /\ pc = "idle"
    /\ ctl' = [ctl EXCEPT ![i] = reset_pid(ctl[i])]
    /\ last' = [last EXCEPT ![i] = [NoCall EXCEPT !.op = "reset",
                                                  !.dirty = Dirty(ctl[i])]]
    /\ UNCHANGED <<hist, pc, loop_i, test_data, suite>>

Next ==
    \/ \E i \in DOMAIN ctl : \E voltage \in Samples(ctl[i]) : Tick(i, voltage)
    \/ \E i \in DOMAIN ctl : ResetPid(i)

Spec == Init /\ [][Next]_vars

-----------------------------------------------------------------------------
(* Properties of a single controller fed finite samples (Spec) *)

Insts == DOMAIN ctl

\* the mathematical clamp of x to [lo, hi]
Clamp(x, lo, hi) == IF x < lo THEN lo ELSE IF x > hi THEN hi ELSE x

StrictlyInside(c, voltage) ==
    Params(c).MIN_VOLTAGE < voltage /\ voltage < Params(c).VOLTAGE_THRESHOLD

\* C1: every current returned by a tick lies in [0, maxCurrent] = [0, 50.0 A],
\* whatever zone the sample falls in.
C1_OutputWithinLimits ==
    \A i \in Insts :
        last[i].op = "tick" =>
            /\ 0 <= last[i].ret
            /\ last[i].ret <= Amps(50)
            /\ last[i].ret <= Params(ctl[i]).MAX_CURRENT

\* an Active tick whose output was cut down to 0 after the compensator had
\* accumulated state
C1_Witness ==
    \E i \in Insts :
        /\ last[i].op = "tick" /\ last[i].active /\ last[i].dirty
        /\ last[i].ret = 0

\* C2: the stored integral always lies in [-integralLimit, integralLimit]
\* (10.0), and the integral term of an Active tick is Ki times that clamped
\* integral, so its magnitude is at most Ki * integralLimit.
C2_AntiWindupBound ==
    \A i \in Insts :
        LET p == Params(ctl[i])
        IN  /\ 0 - VoltSeconds(10) <= ctl[i].integral
            /\ ctl[i].integral <= VoltSeconds(10)
            /\ p.INTEGRAL_LIMIT = VoltSeconds(10)
            /\ (last[i].op = "tick" /\ last[i].active) =>
                   /\ last[i].integral_term = p.ki * ctl[i].integral
                   /\ last[i].integral_term <= p.ki * p.INTEGRAL_LIMIT
                   /\ 0 - last[i].integral_term <= p.ki * p.INTEGRAL_LIMIT

\* an Active tick has left the integral at the limit
C2_Witness ==
    \E i \in Insts :
        /\ last[i].op = "tick" /\ last[i].active
        /\ ctl[i].integral = VoltSeconds(10)

\* C3: a tick with voltage >= threshold or <= minimum returns 0 and leaves
\* integral and previousError at 0; so the compensator state is non-zero only
\* if the most recent tick's voltage was strictly inside (minimum, threshold).
C3_InactiveTickClearsState ==
    \A i \in Insts :
        LET p == Params(ctl[i])
            v == last[i].voltage
        IN  /\ (last[i].op = "tick"
                  /\ (v >= p.VOLTAGE_THRESHOLD \/ v <= p.MIN_VOLTAGE)) =>
                   /\ last[i].ret = 0
                   /\ ctl[i].integral = 0
                   /\ ctl[i].previous_error = 0
            /\ Dirty(ctl[i]) =>
                   /\ last[i].op = "tick"
                   /\ StrictlyInside(ctl[i], v)

\* an inactive tick that found accumulated compensator state and cleared it
C3_Witness ==
    \E i \in Insts :
        /\ last[i].op = "tick" /\ last[i].dirty
        /\ ~StrictlyInside(ctl[i], last[i].voltage)
        /\ ~Dirty(ctl[i])

\* C4: the compensator runs exactly when minimum < voltage < threshold; a
\* sample equal to either boundary is inactive and the samples one step inside
\* are Active.  With threshold 47.5 and minimum 45.0: 47.6, 47.5, 45.0 and
\* 44.0 are inactive; 47.49, 46.5 and 45.01 are Active.
C4_ZoneGatingExact ==
    \A i \in Insts :
        last[i].op = "tick" =>
            LET v == last[i].voltage
            IN  /\ last[i].active <=> StrictlyInside(ctl[i], v)
                /\ ctl[i].cls = Basic =>
                       /\ v \in {Volts(47, 60), Volts(47, 50), Volts(45, 0),
                                 Volts(44, 0)} => ~last[i].active
                       /\ v \in {Volts(47, 49), Volts(46, 50), Volts(45, 1)}
                              => last[i].active

\* the sample just below the threshold, 47.49 V, ran the compensator
C4_Witness ==
    \E i \in Insts :
        /\ ctl[i].cls = Basic
        /\ last[i].op = "tick" /\ last[i].voltage = Volts(47, 49)
        /\ last[i].active

\* what C5 says an Active tick with sample v does to instance i
ActiveTickLaw(i, v) ==
    LET p == Params(ctl[i])
        I == ctl[i].integral
        pe == ctl[i].previous_error
        e == p.TARGET_VOLTAGE - v
        I1 == Clamp(I + e * p.dt, 0 - p.INTEGRAL_LIMIT, p.INTEGRAL_LIMIT)
        raw == p.kp * e * 1000 + p.ki * I1 + (p.kd * (e - pe) * 100000) \div p.dt
    IN  /\ ctl'[i].integral = I1
        /\ ctl'[i].previous_error = e
        /\ last'[i].ret = Clamp(raw, 0, p.MAX_CURRENT)

\* C5: an Active tick from (I, pe) with e = target - voltage leaves
\* I' = clamp(I + e*dt, -limit, +limit) and previousError = e, and returns
\* clamp(Kp*e + Ki*I' + Kd*(e - pe)/dt, 0, maxCurrent).
C5_ActiveTickLaw ==
    [][\A i \in Insts :
          (last'[i].op = "tick" /\ last'[i].active)
              => ActiveTickLaw(i, last'[i].voltage)]_vars

\* an Active tick that started from accumulated state, had its output cut to
\* maxCurrent and still stored the new error
C5_Witness ==
    \E i \in Insts :
        /\ last[i].op = "tick" /\ last[i].active /\ last[i].dirty
        /\ last[i].ret = Params(ctl[i]).MAX_CURRENT
        /\ ctl[i].previous_error = Params(ctl[i]).TARGET_VOLTAGE - last[i].voltage
        /\ ctl[i].integral > 0

-----------------------------------------------------------------------------
(* A controller whose caller does not filter non-finite samples (SpecNaN) *)

\* the harness calls the tick of instance i with float('nan')
TickNaN(i) == Tick(i, NaN)

NextNaN ==
    \/ Next
    \/ \E i \in DOMAIN ctl : TickNaN(i)

SpecNaN == Init /\ [][NextNaN]_vars

\* C7: a tick with a NaN sample never poisons the compensator: integral and
\* previousError stay finite, the tick's output is a finite value in
\* [0, maxCurrent], and so is the output of every later tick.
C7_NaNNeverPoisons ==
    \A i \in Insts :
        /\ Finite(ctl[i].integral)
        /\ Finite(ctl[i].previous_error)
        /\ last[i].op = "tick" =>
               /\ Finite(last[i].ret)
               /\ fLe(0, last[i].ret)
               /\ fLe(last[i].ret, Params(ctl[i]).MAX_CURRENT)

\* C7, its last part alone: a tick with a finite sample returns a finite
\* current even after an earlier NaN sample.
C7_FiniteSampleFiniteOutput ==
    \A i \in Insts :
        (last[i].op = "tick" /\ Finite(last[i].voltage)) => Finite(last[i].ret)

-----------------------------------------------------------------------------
(* Two tester objects ticked in any interleaving (SpecPair) *)

\* ticks recorded per instance
MaxHist == 3

\* an inactive level and two Active levels, common to both classes' zones
PairSamples == {Volts(48, 0), Volts(47, 0), Volts(46, 0)}

InitPair ==
    /\ ctl \in [{1, 2} -> Fresh]
    /\ last = [i \in {1, 2} |-> NoCall]
    /\ hist = [i \in {1, 2} |-> <<>>]
    /\ pc = "idle"
    /\ loop_i = 0
    /\ test_data = <<>>
    /\ suite = NoSuite

\* what a tick of an instance leaves behind, as recorded in hist
Served(voltage, r) ==
    [voltage |-> voltage, ret |-> r.ret,
     integral |-> r.self.integral, previous_error |-> r.self.previous_error]

\* the harness ticks instance i and the tick is recorded
TickRecorded(i, voltage) ==
    /\ pc = "idle"
    /\ Len(hist[i]) < MaxHist
    /\ Ticked(i, voltage)
    /\ hist' = [hist EXCEPT ![i] = Append(@, Served(voltage, tick(ctl[i], voltage)))]
    /\ UNCHANGED <<pc, loop_i, test_data, suite>>

NextPair == \E i \in DOMAIN ctl : \E voltage \in PairSamples : TickRecorded(i, voltage)

SpecPair == InitPair /\ [][NextPair]_vars

\* the freshly constructed object of a class
FreshOf(cls) ==
    IF cls = Realistic THEN RealisticPowerControllerTester_init
    ELSE PowerControllerTester_init

\* the records a lone instance starting as object c leaves when fed voltages
RECURSIVE RunAlone(_, _)
RunAlone(c, voltages) ==
    IF voltages = <<>> THEN <<>>
    ELSE LET r == tick(c, Head(voltages))
         IN  <<Served(Head(voltages), r)>> \o RunAlone(r.self, Tail(voltages))

VoltagesOf(h) == [k \in 1..Len(h) |-> h[k].voltage]

SamePrefix(h1, h2, k) == \A m \in 1..k : h1[m].voltage = h2[m].voltage

\* C8: two fresh instances of identical configuration fed the same voltage
\* sequence return the same outputs and pass through the same
\* (integral, previousError) states at every tick.
C8_Deterministic ==
    \A i, j \in Insts :
        Params(ctl[i]) = Params(ctl[j]) =>
            \A k \in 1..Len(hist[i]) :
                (k <= Len(hist[j]) /\ SamePrefix(hist[i], hist[j], k))
                    => hist[i][k] = hist[j][k]

\* two instances of one class have served the same three samples, the
\* output depending on the history (same sample, different output)
C8_Witness ==
    /\ ctl[1].cls = ctl[2].cls
    /\ Len(hist[1]) = 3 /\ hist[1] = hist[2]
    /\ hist[1][2].voltage = hist[1][3].voltage
    /\ hist[1][2].ret # hist[1][3].ret

\* a tick of one instance leaves every other instance as it was
OthersUntouched ==
    \A i \in Insts :
        hist'[i] = hist[i] => (ctl'[i] = ctl[i] /\ last'[i] = last[i])

\* each instance is where a lone run over its own samples would be
AsIfAlone ==
    \A i \in Insts :
        /\ hist[i] = RunAlone(FreshOf(ctl[i].cls), VoltagesOf(hist[i]))
        /\ Params(ctl[i]) = Params(FreshOf(ctl[i].cls))
        /\ hist[i] # <<>> =>
               /\ ctl[i].integral = hist[i][Len(hist[i])].integral
               /\ ctl[i].previous_error = hist[i][Len(hist[i])].previous_error

\* C10: with two instances ticked in any interleaving, a tick of one leaves
\* the other's integral, previousError and parameters unchanged, and each
\* instance's outputs are those of a lone run over its own voltage sequence.
C10_InstancesIndependent == []AsIfAlone /\ [][OthersUntouched]_vars

\* both instances hold accumulated state from different sample sequences
C10_Witness ==
    /\ Len(hist[1]) >= 2 /\ Len(hist[2]) >= 2
    /\ VoltagesOf(hist[1]) # VoltagesOf(hist[2])
    /\ Dirty(ctl[1]) /\ Dirty(ctl[2])
    /\ ctl[1].integral # ctl[2].integral

-----------------------------------------------------------------------------
(* RealisticPowerControllerTester.test_step_response (SpecStep) *)

\* the Realistic tester, fresh or after one earlier tick, about to run
\* test_step_response
InitStep ==
    /\ \E c \in {RealisticPowerControllerTester_init}
                \cup {simulate_pid_controller(RealisticPowerControllerTester_init, v).self :
                        v \in RealisticSamples} :
           ctl = [i \in {1} |-> c]
    /\ last = [i \in {1} |-> NoCall]
    /\ hist = [i \in {1} |-> <<>>]
    /\ pc = "test_step_response"
    /\ loop_i = 0
    /\ test_data = <<>>
    /\ suite = NoSuite

\* log_data(timestamp, voltage, current, regen_active)
log_data(data, timestamp, voltage, current, regen_active) ==
    Append(data, [time |-> timestamp, voltage |-> voltage,
                  current |-> current, regen_active |-> regen_active])

\* the voltage test_step_response feeds at time t [1e-3 s]
StepVoltage(t) ==
    IF t < 2000 THEN Volts(48, 0)
    ELSE IF t < 8000 THEN Volts(46, 0)
    ELSE Volts(48, 0)

\* test_step_response up to its loop: self.reset_pid()
StepBegin ==
    /\ pc = "test_step_response"
    /\ ctl' = [ctl EXCEPT ![1] = reset_pid(ctl[1])]
    /\ last' = [last EXCEPT ![1] = [NoCall EXCEPT !.op = "reset",
                                                  !.dirty = Dirty(ctl[1])]]
    /\ loop_i' = 0
    /\ pc' = "loop"
    /\ UNCHANGED <<hist, test_data, suite>>

\* one iteration of `for i in range(1000)`
StepIteration ==
    /\ pc = "loop"
    /\ loop_i < 1000
    /\ LET t == loop_i * ctl[1].dt
           voltage == StepVoltage(t)
           current == tick(ctl[1], voltage).ret
           regen_active == /\ voltage < ctl[1].VOLTAGE_THRESHOLD
                           /\ voltage > ctl[1].MIN_VOLTAGE
       IN  /\ Ticked(1, voltage)
           /\ test_data' = log_data(test_data, t, voltage, current, regen_active)
    /\ loop_i' = loop_i + 1
    /\ UNCHANGED <<hist, pc, suite>>

\* the loop is exhausted: return True
StepReturn ==
    /\ pc = "loop"
    /\ loop_i = 1000
    /\ pc' = "done"
    /\ UNCHANGED <<ctl, last, hist, loop_i, test_data, suite>>

NextStep == StepBegin \/ StepIteration \/ StepReturn

SpecStep == InitStep /\ [][NextStep]_vars

\* C9: in the step-response scenario every tick while the voltage is held at
\* 48.0 returns 0 with the state at zero; every tick while it is held at 46.0
\* is Active and returns a value in [0, 50.0]; and the first tick after the
\* step back to 48.0 returns 0 with integral and previousError both 0.
C9_StepResponse ==
    /\ Len(test_data) = (IF pc = "test_step_response" THEN 0 ELSE loop_i)
    /\ \A k \in 1..Len(test_data) :
           LET d == test_data[k]
           IN  /\ d.time = (k - 1) * 10
               /\ d.voltage = (IF 200 < k /\ k <= 800 THEN Volts(46, 0)
                               ELSE Volts(48, 0))
               /\ d.voltage = Volts(48, 0) => d.current = 0
               /\ d.voltage = Volts(46, 0) =>
                      (0 <= d.current /\ d.current <= Amps(50))
    /\ (pc # "test_step_response" /\ loop_i >= 1) =>
           /\ last[1].op = "tick"
           /\ last[1].voltage = test_data[loop_i].voltage
           /\ last[1].ret = test_data[loop_i].current
           /\ last[1].voltage = Volts(46, 0) => last[1].active
           /\ last[1].voltage = Volts(48, 0) =>
                  /\ ~last[1].active
                  /\ ctl[1].integral = 0
                  /\ ctl[1].previous_error = 0

\* the tick right after the step back to 48.0 (i = 800), which found the
\* integral accumulated over the 46.0 V hold
C9_Witness ==
    /\ pc = "loop" /\ loop_i = 801
    /\ last[1].dirty
    /\ last[1].ret = 0 /\ ~Dirty(ctl[1])
    /\ test_data[800].current > 0

-----------------------------------------------------------------------------
(* Further properties of a single controller (Spec) *)

\* C11: a tick never changes the configuration: Kp, Ki, Kd, dt, target,
\* threshold, minimum, integralLimit and maxCurrent keep the values set at
\* construction; dt in particular stays the constructor's constant (0.1 s and
\* 0.01 s), whatever the harness's sampling step.
C11_ConfigurationFrozen ==
    \A i \in Insts :
        /\ Params(ctl[i]) = Params(FreshOf(ctl[i].cls))
        /\ ctl[i].dt = (IF ctl[i].cls = Realistic THEN 10 ELSE 100)
        /\ [ctl[i] EXCEPT !.integral = 0, !.previous_error = 0]
               = FreshOf(ctl[i].cls)

\* a Basic tester that has served several Active ticks still has dt = 0.1 s
C11_Witness ==
    \E i \in Insts :
        /\ last[i].op = "tick" /\ last[i].active /\ last[i].dirty
        /\ ctl[i].cls = Basic
        /\ ctl[i].integral > ErrorTimesDt(ctl[i].previous_error, ctl[i].dt)
        /\ ctl[i].dt = 100

-----------------------------------------------------------------------------
(* History erased by an inactive tick (SpecPair) *)

\* the recorded tick h[a] was outside the Active zone of object c
InactiveAt(c, h, a) == ~StrictlyInside(c, h[a].voltage)

\* the k samples after position a of h1 equal the k samples after b of h2
SameContinuation(h1, a, h2, b, k) ==
    /\ a + k <= Len(h1)
    /\ b + k <= Len(h2)
    /\ \A m \in 1..k : h1[a + m].voltage = h2[b + m].voltage

\* C12: an inactive tick erases all history: after any two histories that
\* each end with a tick outside the Active zone, the same subsequent voltages
\* give the same outputs and states; a single inactive sample between Active
\* samples discards the accumulated integral (no debounce, no hysteresis).
C12_InactiveTickErasesHistory ==
    \A i, j \in Insts :
        Params(ctl[i]) = Params(ctl[j]) =>
            \A a \in 1..Len(hist[i]) : \A b \in 1..Len(hist[j]) :
                (InactiveAt(ctl[i], hist[i], a) /\ InactiveAt(ctl[j], hist[j], b)) =>
                    /\ hist[i][a].integral = 0
                    /\ hist[i][a].previous_error = 0
                    /\ \A k \in 1..MaxHist :
                           SameContinuation(hist[i], a, hist[j], b, k)
                               => hist[i][a + k] = hist[j][b + k]
                    /\ a < Len(hist[i]) =>
                           <<hist[i][a + 1]>> =
                               RunAlone(FreshOf(ctl[i].cls), <<hist[i][a + 1].voltage>>)

\* Active, inactive, Active on one object: the third tick starts over, and
\* another object of the class reached the same records after a different
\* beginning
C12_Witness ==
    /\ Len(hist[1]) = 3
    /\ ~InactiveAt(ctl[1], hist[1], 1)
    /\ InactiveAt(ctl[1], hist[1], 2)
    /\ ~InactiveAt(ctl[1], hist[1], 3)
    /\ hist[1][1].integral > 0
    /\ hist[1][3].integral = ErrorTimesDt(hist[1][3].previous_error, ctl[1].dt)
    /\ ctl[2].cls = ctl[1].cls
    /\ Len(hist[2]) = 2
    /\ InactiveAt(ctl[2], hist[2], 1)
    /\ hist[2][2] = hist[1][3]

-----------------------------------------------------------------------------
(* Shape of the step response (SpecStep) *)

\* C13: while a constant voltage is held inside the Active zone right after
\* an inactive tick (the 48.0 -> 46.0 step), the output never decreases from
\* one tick to the next.
C13_HeldOutputNonDecreasing ==
    \A k \in 1..(Len(test_data) - 1) :
        (/\ test_data[k].regen_active
         /\ test_data[k + 1].regen_active
         /\ test_data[k + 1].voltage = test_data[k].voltage)
            => test_data[k + 1].current >= test_data[k].current

\* what does hold: from the second tick of the hold on the output never
\* decreases (the first tick carries the derivative of the jump from
\* previous_error = 0)
C13_NonDecreasingAfterFirstHeldTick ==
    \A k \in 2..(Len(test_data) - 1) :
        (/\ test_data[k - 1].regen_active
         /\ test_data[k].regen_active
         /\ test_data[k + 1].regen_active
         /\ test_data[k].voltage = test_data[k - 1].voltage
         /\ test_data[k + 1].voltage = test_data[k].voltage)
            => test_data[k + 1].current >= test_data[k].current

-----------------------------------------------------------------------------
(* The scenario tests' sample loop: tick, flag, log (SpecLog) *)

\* tuples logged per run
MaxLog == 3

\* the flag of test_voltage_response with the minimum of the other tester
regen_active_Basic_OtherMinimum(voltage) ==
    fLt(voltage, Volts(47, 50)) /\ fGt(voltage, Volts(36, 0))

\* PowerControllerTester's tests: `voltage < 47.5 and voltage > 45.0`
regen_active_Basic(voltage) ==
    fLt(voltage, Volts(47, 50)) /\ fGt(voltage, Volts(45, 0))

\* RealisticPowerControllerTester's tests:
\* `voltage < self.VOLTAGE_THRESHOLD and voltage > self.MIN_VOLTAGE`
regen_active_Realistic(c, voltage) ==
    fLt(voltage, c.VOLTAGE_THRESHOLD) /\ fGt(voltage, c.MIN_VOLTAGE)

\* a scenario test starts: the PID state is reset and the loop index is 0
ScenarioBegin ==
    /\ pc = "idle"
    /\ ctl' = [ctl EXCEPT ![1] = reset_pid(ctl[1])]
    /\ last' = [last EXCEPT ![1] = [NoCall EXCEPT !.op = "reset",
                                                  !.dirty = Dirty(ctl[1])]]
    /\ loop_i' = 0
    /\ UNCHANGED <<hist, pc, test_data, suite>>

\* one iteration of test_voltage_response (time_step = 0.1 s)
VoltageResponseSample(voltage) ==
    /\ pc = "idle"
    /\ ctl[1].cls = Basic
    /\ Len(test_data) < MaxLog
    /\ LET t == loop_i * 100
           current == tick(ctl[1], voltage).ret
           regen_active == regen_active_Basic(voltage)
       IN  /\ Ticked(1, voltage)
           /\ test_data' = log_data(test_data, t, voltage, current, regen_active)
    /\ loop_i' = loop_i + 1
    /\ UNCHANGED <<hist, pc, suite>>

\* one iteration of test_smooth_voltage_regulation / test_ramp_response
RegulationSample(voltage) ==
    /\ pc = "idle"
    /\ ctl[1].cls = Realistic
    /\ Len(test_data) < MaxLog
    /\ LET t == loop_i * ctl[1].dt
           current == tick(ctl[1], voltage).ret
           regen_active == regen_active_Realistic(ctl[1], voltage)
       IN  /\ Ticked(1, voltage)
           /\ test_data' = log_data(test_data, t, voltage, current, regen_active)
    /\ loop_i' = loop_i + 1
    /\ UNCHANGED <<hist, pc, suite>>

NextLog ==
    \/ ScenarioBegin
    \/ \E voltage \in BasicSamples : VoltageResponseSample(voltage)
    \/ \E voltage \in RealisticSamples : RegulationSample(voltage)

SpecLog == Init /\ [][NextLog]_vars

\* C14: for every tuple the scenario tests log, regen_active is true exactly
\* when the controller ran the compensator for that sample, and every tuple
\* logged with regen_active false has current 0.
C14_LogMatchesGating ==
    /\ \A k \in 1..Len(test_data) :
           ~test_data[k].regen_active => test_data[k].current = 0
    /\ (test_data # <<>> /\ last[1].op = "tick") =>
           LET d == test_data[Len(test_data)]
           IN  /\ d.voltage = last[1].voltage
               /\ d.current = last[1].ret
               /\ d.regen_active <=> last[1].active

\* the log holds an Active tuple with current flowing followed by an
\* inactive tuple with current 0
C14_Witness ==
    /\ Len(test_data) >= 2
    /\ test_data[1].regen_active /\ test_data[1].current > 0
    /\ ~test_data[2].regen_active /\ test_data[2].current = 0
    /\ last[1].op = "tick" /\ last[1].dirty

-----------------------------------------------------------------------------
(* Sign of the error and of the compensator state (Spec) *)

SignInvariant ==
    \A i \in Insts :
        LET p == Params(ctl[i])
        IN  /\ ctl[i].integral >= 0
            /\ ctl[i].previous_error >= 0
            /\ (last[i].op = "tick" /\ last[i].active) =>
                   /\ p.TARGET_VOLTAGE - last[i].voltage > 0
                   /\ p.TARGET_VOLTAGE - last[i].voltage
                          > p.TARGET_VOLTAGE - p.VOLTAGE_THRESHOLD
                   /\ ctl[i].previous_error > 0
                   /\ ctl[i].integral > 0

SignStep ==
    \A i \in Insts :
        (last'[i].op = "tick" /\ last'[i].active) =>
            LET p == Params(ctl[i])
                e == p.TARGET_VOLTAGE - last'[i].voltage
            IN  \* the elif branch `integral < -INTEGRAL_LIMIT` is not taken
                /\ ~(ctl[i].integral + e * p.dt < 0 - p.INTEGRAL_LIMIT)
                \* two Active ticks in a row: the integral does not decrease
                /\ (last[i].op = "tick" /\ last[i].active) =>
                       ctl'[i].integral >= ctl[i].integral

\* C15: with target 48.0 above threshold 47.5 the error is strictly positive
\* on every Active tick; integral >= 0 and previousError >= 0 in every
\* reachable state, the integral does not decrease across consecutive Active
\* ticks, and the lower anti-windup clamp is never taken.
C15_ErrorAndStateNonNegative == []SignInvariant /\ [][SignStep]_vars

\* a second Active tick in a row that raised the integral, still below the limit
C15_Witness ==
    \E i \in Insts :
        /\ last[i].op = "tick" /\ last[i].active /\ last[i].dirty
        /\ ctl[i].previous_error > 0
        /\ ctl[i].integral > ErrorTimesDt(ctl[i].previous_error, ctl[i].dt)
        /\ ctl[i].integral < Params(ctl[i]).INTEGRAL_LIMIT

-----------------------------------------------------------------------------
(* Saturated output and the integrator (Spec) *)

\* C16: an Active tick whose output is clamped to maxCurrent (or to 0) still
\* advances the integral by error*dt, up to the limit, and stores the error
\* as previousError: there is no conditional integration.
C16_SaturationKeepsIntegrating ==
    [][\A i \in Insts :
          (/\ last'[i].op = "tick" /\ last'[i].active
           /\ last'[i].ret \in {0, Params(ctl[i]).MAX_CURRENT}) =>
              LET p == Params(ctl[i])
                  e == p.TARGET_VOLTAGE - last'[i].voltage
              IN  /\ ctl'[i].integral
                         = pyMin(ctl[i].integral + e * p.dt, p.INTEGRAL_LIMIT)
                  /\ ctl[i].integral < p.INTEGRAL_LIMIT =>
                         ctl'[i].integral > ctl[i].integral
                  /\ ctl'[i].previous_error = e]_vars

\* an Active tick whose proportional term alone exceeds maxCurrent returned
\* maxCurrent, and the integral it started from has grown, short of the limit
C16_Witness ==
    \E i \in Insts :
        LET p == Params(ctl[i])
            e == p.TARGET_VOLTAGE - last[i].voltage
        IN  /\ last[i].op = "tick" /\ last[i].active /\ last[i].dirty
            /\ last[i].ret = p.MAX_CURRENT
            /\ KpTimesError(p.kp, e) > p.MAX_CURRENT
            /\ ctl[i].integral > ErrorTimesDt(e, p.dt)
            /\ ctl[i].integral < p.INTEGRAL_LIMIT
            /\ ctl[i].previous_error = e

-----------------------------------------------------------------------------
(* PowerControllerTester.run_all_tests (SpecSuite) *)

\* A test method is modelled by how its call ends; its ticks and log_data
\* calls are the subject of Spec and SpecLog, and run_all_tests reads neither
\* the PID state nor self.test_data.  suite.started and suite.outcomes record
\* the calls made so far.

\* the `tests` list, by name
tests == <<"Voltage Response", "PID Stability", "Boundary Conditions",
           "Performance">>

\* how a call of the named test can end: the first three end in `return True`
\* or in an exception; test_performance returns `elapsed < 5.0`
Outcomes(test_name) ==
    IF test_name = "Performance" THEN {"True", "False", "Exception"}
    ELSE {"True", "Exception"}

\* one PowerControllerTester, just constructed, about to run the suite
InitSuite ==
    /\ ctl = [i \in {1} |-> PowerControllerTester_init]
    /\ last = [i \in {1} |-> NoCall]
    /\ hist = [i \in {1} |-> <<>>]
    /\ pc = "run_all_tests"
    /\ loop_i = 0
    /\ test_data = <<>>
    /\ suite = NoSuite

\* banner, the tests list, passed = 0, total = len(tests)
SuiteBegin ==
    /\ pc = "run_all_tests"
    /\ suite' = [suite EXCEPT !.passed = 0, !.total = Len(tests)]
    /\ loop_i' = 0
    /\ pc' = "for"
    /\ UNCHANGED <<ctl, last, hist, test_data>>

\* the for statement takes the next (test_name, test_func) and prints the header
SuiteNextTest ==
    /\ pc = "for"
    /\ loop_i < Len(tests)
    /\ suite' = [suite EXCEPT !.started = Append(@, tests[loop_i + 1])]
    /\ pc' = "try"
    /\ UNCHANGED <<ctl, last, hist, loop_i, test_data>>

\* `result = test_func()` inside the try
SuiteCall(outcome) ==
    /\ pc = "try"
    /\ outcome \in Outcomes(tests[loop_i + 1])
    /\ suite' = [suite EXCEPT !.result = outcome,
                              !.outcomes = Append(@, outcome)]
    /\ pc' = IF outcome = "Exception" THEN "except" ELSE "if"
    /\ UNCHANGED <<ctl, last, hist, loop_i, test_data>>

\* `if result:` passed += 1, else the FAILED line
SuiteJudge ==
    /\ pc = "if"
    /\ suite' = [suite EXCEPT !.passed = IF suite.result = "True"
                                         THEN @ + 1 ELSE @]
    /\ loop_i' = loop_i + 1
    /\ pc' = "for"
    /\ UNCHANGED <<ctl, last, hist, test_data>>

\* an except clause that lets the exception out of run_all_tests
SuiteExcept_Propagates ==
    /\ pc = "except"
    /\ pc' = "raised"
    /\ UNCHANGED <<ctl, last, hist, loop_i, test_data, suite>>

\* `except Exception as e:` prints the ERROR line and the loop goes on
SuiteExcept ==
    /\ pc = "except"
    /\ loop_i' = loop_i + 1
    /\ pc' = "for"
    /\ UNCHANGED <<ctl, last, hist, test_data, suite>>

\* the loop is exhausted: the summary lines
SuiteSummary ==
    /\ pc = "for"
    /\ loop_i = Len(tests)
    /\ pc' = "generate_report"
    /\ UNCHANGED <<ctl, last, hist, loop_i, test_data, suite>>

\* `self.generate_report()`: it returns None or raises (e.g. from savefig)
SuiteReport(outcome) ==
    /\ pc = "generate_report"
    /\ outcome \in {"None", "Exception"}
    /\ suite' = [suite EXCEPT !.report_calls = @ + 1]
    /\ pc' = IF outcome = "Exception" THEN "raised" ELSE "return"
    /\ UNCHANGED <<ctl, last, hist, loop_i, test_data>>

\* `return passed == total`
SuiteReturn ==
    /\ pc = "return"
    /\ suite' = [suite EXCEPT !.ret = IF suite.passed = suite.total
                                      THEN "True" ELSE "False"]
    /\ pc' = "done"
    /\ UNCHANGED <<ctl, last, hist, loop_i, test_data>>

NextSuite ==
    \/ SuiteBegin
    \/ SuiteNextTest
    \/ \E outcome \in {"True", "False", "Exception"} : SuiteCall(outcome)
    \/ SuiteJudge
    \/ SuiteExcept
    \/ SuiteSummary
    \/ \E outcome \in {"None", "Exception"} : SuiteReport(outcome)
    \/ SuiteReturn

SpecSuite == InitSuite /\ [][NextSuite]_vars

\* the calls of outcomes[1..n] that returned a true value
ReturnedTrue(outcomes) == {k \in 1..Len(outcomes) : outcomes[k] = "True"}

\* C17: run_all_tests runs Voltage Response, PID Stability, Boundary
\* Conditions, Performance in that order; a test that raises or returns a
\* false value is not counted and the remaining tests still run;
\* generate_report is invoked after the last test in every case; the value
\* returned is true iff all four tests returned a true value.
C17_SuiteRunsAllAndReports ==
    LET afterLoop == pc \in {"generate_report", "return", "done", "raised"}
    IN  /\ Len(suite.started) <= Len(tests)
        /\ \A k \in 1..Len(suite.started) : suite.started[k] = tests[k]
        /\ afterLoop => /\ suite.started = tests
                        /\ Len(suite.outcomes) = Len(tests)
        /\ pc \in {"for", "try", "generate_report", "return", "done", "raised"}
               => suite.passed = Cardinality(ReturnedTrue(suite.outcomes))
        /\ suite.report_calls = (IF pc \in {"return", "done", "raised"}
                                 THEN 1 ELSE 0)
        /\ pc = "done" =>
               (suite.ret = "True" <=>
                    \A k \in 1..Len(tests) : suite.outcomes[k] = "True")
        /\ pc = "done" => suite.ret \in {"True", "False"}

\* a run where the second test raised and the fourth returned False: all four
\* ran, two were counted, the report was generated and False was returned
C17_Witness ==
    /\ pc = "done"
    /\ suite.outcomes = <<"True", "Exception", "True", "False">>
    /\ suite.started = tests
    /\ suite.passed = 2
    /\ suite.report_calls = 1
    /\ suite.ret = "False"

====
